---- MODULE Spec2Model ----
(***************************************************************************)
(* Model of src/handlers.py: the kopf creation handler send_to_dojo, which *)
(* turns a trivy-operator VulnerabilityReport into a DefectDojo            *)
(* reimport-scan request.                                                  *)
(*                                                                         *)
(* Python str values are sequences of one-character strings, so that       *)
(* split, join, concatenation and strptime work on characters.  JSON       *)
(* values are tagged pairs: <<"str", chars>>, <<"num", n>>, <<"lit", l>>,  *)
(* <<"arr", items>> and <<"obj", members>>, where members is a sequence of *)
(* <<key, value>> pairs in insertion order.                                *)
(***************************************************************************)
EXTENDS Integers, Sequences, FiniteSets

(***************************************************************************)
(* Bound of the explored input space: the longest resource name.           *)
(***************************************************************************)
MaxNameLen == 1

(***************************************************************************)
(* String literals of the handler.                                         *)
(***************************************************************************)
ReplicaSetStr == <<"R","e","p","l","i","c","a","S","e","t">>
DeploymentStr == <<"D","e","p","l","o","y","m","e","n","t">>
EngagementPrefix == <<"F","e","d","R","a","m","p"," ","A","u","d","i","t"," ","-"," ">>
TagsPrefix == <<"i","m","a","g","e","_","d","i","g","e","s","t","=">>
Sep2 == <<"_","_">>
ScanTypeStr == <<"T","r","i","v","y"," ","O","p","e","r","a","t","o","r"," ","S","c","a","n">>
ImportPath == <<"/","a","p","i","/","v","2","/","r","e","i","m","p","o","r","t","-","s","c","a","n","/">>

LabelNamespace == "trivy-operator.resource.namespace"
LabelKind == "trivy-operator.resource.kind"
LabelContainer == "trivy-operator.container.name"
LabelName == "trivy-operator.resource.name"

(***************************************************************************)
(* str.split(sep) for a one-character separator, list[:-1] and             *)
(* sep.join(list).                                                         *)
(***************************************************************************)
RECURSIVE Split(_, _)
Split(s, c) ==
    IF \A i \in 1..Len(s) : s[i] # c
    THEN <<s>>
    ELSE LET i == CHOOSE j \in 1..Len(s) :
                      s[j] = c /\ \A k \in 1..(j - 1) : s[k] # c
         IN  <<SubSeq(s, 1, i - 1)>> \o Split(SubSeq(s, i + 1, Len(s)), c)

ButLast(parts) == SubSeq(parts, 1, Len(parts) - 1)

RECURSIVE Join(_, _)
Join(parts, sep) ==
    IF Len(parts) = 0 THEN <<>>
    ELSE IF Len(parts) = 1 THEN parts[1]
    ELSE parts[1] \o sep \o Join(Tail(parts), sep)

(***************************************************************************)
(* datetime.strptime(s, '%Y-%m-%dT%H:%M:%SZ').  The format compiles to the *)
(* regular expression                                                      *)
(*   (\d\d\d\d)-(1[0-2]|0[1-9]|[1-9])-(3[01]|[12]\d|0[1-9]|[1-9]| [1-9])   *)
(*   T(2[0-3]|[0-1]\d|\d):([0-5]\d|\d):(6[0-1]|[0-5]\d|\d)Z                *)
(* matched case-insensitively from the start of s; the whole of s has to   *)
(* be consumed, and the fields have to form a valid datetime.  The         *)
(* pattern is a str pattern, so \d matches every Unicode decimal digit     *)
(* (category Nd), while the bracket classes [1-9], [0-2], ... list ASCII   *)
(* digits only; int() of a group takes the decimal value of each digit.    *)
(*                                                                         *)
(* A character of a string is a one-character string; a character outside *)
(* ASCII is written by its code point, "U+FF12" for FULLWIDTH DIGIT TWO.   *)
(***************************************************************************)
DigitChars == <<"0","1","2","3","4","5","6","7","8","9">>
AsciiDigit == {DigitChars[i] : i \in 1..10}

\* The decimal digits outside ASCII (Unicode 14, the table of Python 3.11):
\* one row per script, the digits zero to nine in order.
UnicodeDigitRows == <<
    <<"U+0660","U+0661","U+0662","U+0663","U+0664","U+0665","U+0666","U+0667","U+0668","U+0669">>,
    <<"U+06F0","U+06F1","U+06F2","U+06F3","U+06F4","U+06F5","U+06F6","U+06F7","U+06F8","U+06F9">>,
    <<"U+07C0","U+07C1","U+07C2","U+07C3","U+07C4","U+07C5","U+07C6","U+07C7","U+07C8","U+07C9">>,
    <<"U+0966","U+0967","U+0968","U+0969","U+096A","U+096B","U+096C","U+096D","U+096E","U+096F">>,
    <<"U+09E6","U+09E7","U+09E8","U+09E9","U+09EA","U+09EB","U+09EC","U+09ED","U+09EE","U+09EF">>,
    <<"U+0A66","U+0A67","U+0A68","U+0A69","U+0A6A","U+0A6B","U+0A6C","U+0A6D","U+0A6E","U+0A6F">>,
    <<"U+0AE6","U+0AE7","U+0AE8","U+0AE9","U+0AEA","U+0AEB","U+0AEC","U+0AED","U+0AEE","U+0AEF">>,
    <<"U+0B66","U+0B67","U+0B68","U+0B69","U+0B6A","U+0B6B","U+0B6C","U+0B6D","U+0B6E","U+0B6F">>,
    <<"U+0BE6","U+0BE7","U+0BE8","U+0BE9","U+0BEA","U+0BEB","U+0BEC","U+0BED","U+0BEE","U+0BEF">>,
    <<"U+0C66","U+0C67","U+0C68","U+0C69","U+0C6A","U+0C6B","U+0C6C","U+0C6D","U+0C6E","U+0C6F">>,
    <<"U+0CE6","U+0CE7","U+0CE8","U+0CE9","U+0CEA","U+0CEB","U+0CEC","U+0CED","U+0CEE","U+0CEF">>,
    <<"U+0D66","U+0D67","U+0D68","U+0D69","U+0D6A","U+0D6B","U+0D6C","U+0D6D","U+0D6E","U+0D6F">>,
    <<"U+0DE6","U+0DE7","U+0DE8","U+0DE9","U+0DEA","U+0DEB","U+0DEC","U+0DED","U+0DEE","U+0DEF">>,
    <<"U+0E50","U+0E51","U+0E52","U+0E53","U+0E54","U+0E55","U+0E56","U+0E57","U+0E58","U+0E59">>,
    <<"U+0ED0","U+0ED1","U+0ED2","U+0ED3","U+0ED4","U+0ED5","U+0ED6","U+0ED7","U+0ED8","U+0ED9">>,
    <<"U+0F20","U+0F21","U+0F22","U+0F23","U+0F24","U+0F25","U+0F26","U+0F27","U+0F28","U+0F29">>,
    <<"U+1040","U+1041","U+1042","U+1043","U+1044","U+1045","U+1046","U+1047","U+1048","U+1049">>,
    <<"U+1090","U+1091","U+1092","U+1093","U+1094","U+1095","U+1096","U+1097","U+1098","U+1099">>,
    <<"U+17E0","U+17E1","U+17E2","U+17E3","U+17E4","U+17E5","U+17E6","U+17E7","U+17E8","U+17E9">>,
    <<"U+1810","U+1811","U+1812","U+1813","U+1814","U+1815","U+1816","U+1817","U+1818","U+1819">>,
    <<"U+1946","U+1947","U+1948","U+1949","U+194A","U+194B","U+194C","U+194D","U+194E","U+194F">>,
    <<"U+19D0","U+19D1","U+19D2","U+19D3","U+19D4","U+19D5","U+19D6","U+19D7","U+19D8","U+19D9">>,
    <<"U+1A80","U+1A81","U+1A82","U+1A83","U+1A84","U+1A85","U+1A86","U+1A87","U+1A88","U+1A89">>,
    <<"U+1A90","U+1A91","U+1A92","U+1A93","U+1A94","U+1A95","U+1A96","U+1A97","U+1A98","U+1A99">>,
    <<"U+1B50","U+1B51","U+1B52","U+1B53","U+1B54","U+1B55","U+1B56","U+1B57","U+1B58","U+1B59">>,
    <<"U+1BB0","U+1BB1","U+1BB2","U+1BB3","U+1BB4","U+1BB5","U+1BB6","U+1BB7","U+1BB8","U+1BB9">>,
    <<"U+1C40","U+1C41","U+1C42","U+1C43","U+1C44","U+1C45","U+1C46","U+1C47","U+1C48","U+1C49">>,
    <<"U+1C50","U+1C51","U+1C52","U+1C53","U+1C54","U+1C55","U+1C56","U+1C57","U+1C58","U+1C59">>,
    <<"U+A620","U+A621","U+A622","U+A623","U+A624","U+A625","U+A626","U+A627","U+A628","U+A629">>,
    <<"U+A8D0","U+A8D1","U+A8D2","U+A8D3","U+A8D4","U+A8D5","U+A8D6","U+A8D7","U+A8D8","U+A8D9">>,
    <<"U+A900","U+A901","U+A902","U+A903","U+A904","U+A905","U+A906","U+A907","U+A908","U+A909">>,
    <<"U+A9D0","U+A9D1","U+A9D2","U+A9D3","U+A9D4","U+A9D5","U+A9D6","U+A9D7","U+A9D8","U+A9D9">>,
    <<"U+A9F0","U+A9F1","U+A9F2","U+A9F3","U+A9F4","U+A9F5","U+A9F6","U+A9F7","U+A9F8","U+A9F9">>,
    <<"U+AA50","U+AA51","U+AA52","U+AA53","U+AA54","U+AA55","U+AA56","U+AA57","U+AA58","U+AA59">>,
    <<"U+ABF0","U+ABF1","U+ABF2","U+ABF3","U+ABF4","U+ABF5","U+ABF6","U+ABF7","U+ABF8","U+ABF9">>,
    <<"U+FF10","U+FF11","U+FF12","U+FF13","U+FF14","U+FF15","U+FF16","U+FF17","U+FF18","U+FF19">>,
    <<"U+104A0","U+104A1","U+104A2","U+104A3","U+104A4","U+104A5","U+104A6","U+104A7","U+104A8","U+104A9">>,
    <<"U+10D30","U+10D31","U+10D32","U+10D33","U+10D34","U+10D35","U+10D36","U+10D37","U+10D38","U+10D39">>,
    <<"U+11066","U+11067","U+11068","U+11069","U+1106A","U+1106B","U+1106C","U+1106D","U+1106E","U+1106F">>,
    <<"U+110F0","U+110F1","U+110F2","U+110F3","U+110F4","U+110F5","U+110F6","U+110F7","U+110F8","U+110F9">>,
    <<"U+11136","U+11137","U+11138","U+11139","U+1113A","U+1113B","U+1113C","U+1113D","U+1113E","U+1113F">>,
    <<"U+111D0","U+111D1","U+111D2","U+111D3","U+111D4","U+111D5","U+111D6","U+111D7","U+111D8","U+111D9">>,
    <<"U+112F0","U+112F1","U+112F2","U+112F3","U+112F4","U+112F5","U+112F6","U+112F7","U+112F8","U+112F9">>,
    <<"U+11450","U+11451","U+11452","U+11453","U+11454","U+11455","U+11456","U+11457","U+11458","U+11459">>,
    <<"U+114D0","U+114D1","U+114D2","U+114D3","U+114D4","U+114D5","U+114D6","U+114D7","U+114D8","U+114D9">>,
    <<"U+11650","U+11651","U+11652","U+11653","U+11654","U+11655","U+11656","U+11657","U+11658","U+11659">>,
    <<"U+116C0","U+116C1","U+116C2","U+116C3","U+116C4","U+116C5","U+116C6","U+116C7","U+116C8","U+116C9">>,
    <<"U+11730","U+11731","U+11732","U+11733","U+11734","U+11735","U+11736","U+11737","U+11738","U+11739">>,
    <<"U+118E0","U+118E1","U+118E2","U+118E3","U+118E4","U+118E5","U+118E6","U+118E7","U+118E8","U+118E9">>,
    <<"U+11950","U+11951","U+11952","U+11953","U+11954","U+11955","U+11956","U+11957","U+11958","U+11959">>,
    <<"U+11C50","U+11C51","U+11C52","U+11C53","U+11C54","U+11C55","U+11C56","U+11C57","U+11C58","U+11C59">>,
    <<"U+11D50","U+11D51","U+11D52","U+11D53","U+11D54","U+11D55","U+11D56","U+11D57","U+11D58","U+11D59">>,
    <<"U+11DA0","U+11DA1","U+11DA2","U+11DA3","U+11DA4","U+11DA5","U+11DA6","U+11DA7","U+11DA8","U+11DA9">>,
    <<"U+16A60","U+16A61","U+16A62","U+16A63","U+16A64","U+16A65","U+16A66","U+16A67","U+16A68","U+16A69">>,
    <<"U+16AC0","U+16AC1","U+16AC2","U+16AC3","U+16AC4","U+16AC5","U+16AC6","U+16AC7","U+16AC8","U+16AC9">>,
    <<"U+16B50","U+16B51","U+16B52","U+16B53","U+16B54","U+16B55","U+16B56","U+16B57","U+16B58","U+16B59">>,
    <<"U+1D7CE","U+1D7CF","U+1D7D0","U+1D7D1","U+1D7D2","U+1D7D3","U+1D7D4","U+1D7D5","U+1D7D6","U+1D7D7">>,
    <<"U+1D7D8","U+1D7D9","U+1D7DA","U+1D7DB","U+1D7DC","U+1D7DD","U+1D7DE","U+1D7DF","U+1D7E0","U+1D7E1">>,
    <<"U+1D7E2","U+1D7E3","U+1D7E4","U+1D7E5","U+1D7E6","U+1D7E7","U+1D7E8","U+1D7E9","U+1D7EA","U+1D7EB">>,
    <<"U+1D7EC","U+1D7ED","U+1D7EE","U+1D7EF","U+1D7F0","U+1D7F1","U+1D7F2","U+1D7F3","U+1D7F4","U+1D7F5">>,
    <<"U+1D7F6","U+1D7F7","U+1D7F8","U+1D7F9","U+1D7FA","U+1D7FB","U+1D7FC","U+1D7FD","U+1D7FE","U+1D7FF">>,
    <<"U+1E140","U+1E141","U+1E142","U+1E143","U+1E144","U+1E145","U+1E146","U+1E147","U+1E148","U+1E149">>,
    <<"U+1E2F0","U+1E2F1","U+1E2F2","U+1E2F3","U+1E2F4","U+1E2F5","U+1E2F6","U+1E2F7","U+1E2F8","U+1E2F9">>,
    <<"U+1E950","U+1E951","U+1E952","U+1E953","U+1E954","U+1E955","U+1E956","U+1E957","U+1E958","U+1E959">>,
    <<"U+1FBF0","U+1FBF1","U+1FBF2","U+1FBF3","U+1FBF4","U+1FBF5","U+1FBF6","U+1FBF7","U+1FBF8","U+1FBF9">> >>
UnicodeDigit == {UnicodeDigitRows[r][i] : r \in 1..Len(UnicodeDigitRows), i \in 1..10}

\* What \d matches, and the value int() gives a digit.
Digit == AsciiDigit \cup UnicodeDigit
DigitVal(c) ==
    IF c \in AsciiDigit THEN (CHOOSE i \in 1..10 : DigitChars[i] = c) - 1
    ELSE (CHOOSE i \in 1..10 :
            \E r \in 1..Len(UnicodeDigitRows) : UnicodeDigitRows[r][i] = c) - 1

RECURSIVE IntOf(_)
IntOf(f) ==
    IF Len(f) = 0 THEN 0
    ELSE IF f[1] = " " THEN IntOf(Tail(f))
    ELSE IntOf(SubSeq(f, 1, Len(f) - 1)) * 10 + DigitVal(f[Len(f)])

ReYear(f) == Len(f) = 4 /\ \A i \in 1..4 : f[i] \in Digit
ReMonth(f) ==
    \/ Len(f) = 2 /\ f[1] = "1" /\ f[2] \in {"0","1","2"}
    \/ Len(f) = 2 /\ f[1] = "0" /\ f[2] \in AsciiDigit \ {"0"}
    \/ Len(f) = 1 /\ f[1] \in AsciiDigit \ {"0"}
ReDay(f) ==
    \/ Len(f) = 2 /\ f[1] = "3" /\ f[2] \in {"0","1"}
    \/ Len(f) = 2 /\ f[1] \in {"1","2"} /\ f[2] \in Digit
    \/ Len(f) = 2 /\ f[1] = "0" /\ f[2] \in AsciiDigit \ {"0"}
    \/ Len(f) = 1 /\ f[1] \in AsciiDigit \ {"0"}
    \/ Len(f) = 2 /\ f[1] = " " /\ f[2] \in AsciiDigit \ {"0"}
ReHour(f) ==
    \/ Len(f) = 2 /\ f[1] = "2" /\ f[2] \in {"0","1","2","3"}
    \/ Len(f) = 2 /\ f[1] \in {"0","1"} /\ f[2] \in Digit
    \/ Len(f) = 1 /\ f[1] \in Digit
ReMinute(f) ==
    \/ Len(f) = 2 /\ f[1] \in {"0","1","2","3","4","5"} /\ f[2] \in Digit
    \/ Len(f) = 1 /\ f[1] \in Digit
ReSecond(f) ==
    \/ Len(f) = 2 /\ f[1] = "6" /\ f[2] \in {"0","1"}
    \/ Len(f) = 2 /\ f[1] \in {"0","1","2","3","4","5"} /\ f[2] \in Digit
    \/ Len(f) = 1 /\ f[1] \in Digit

\* The matches of the expression against the whole of s, each given by the
\* widths of its five variable-width groups.  The literals between the
\* groups are not digits, so there is at most one.
FieldCuts(s) ==
    { w \in [1..5 -> {1, 2}] :
        /\ Len(s) = 10 + w[1] + w[2] + w[3] + w[4] + w[5]
        /\ ReYear(SubSeq(s, 1, 4))
        /\ s[5] = "-"
        /\ ReMonth(SubSeq(s, 6, 5 + w[1]))
        /\ s[6 + w[1]] = "-"
        /\ ReDay(SubSeq(s, 7 + w[1], 6 + w[1] + w[2]))
        /\ s[7 + w[1] + w[2]] \in {"T", "t"}
        /\ ReHour(SubSeq(s, 8 + w[1] + w[2], 7 + w[1] + w[2] + w[3]))
        /\ s[8 + w[1] + w[2] + w[3]] = ":"
        /\ ReMinute(SubSeq(s, 9 + w[1] + w[2] + w[3], 8 + w[1] + w[2] + w[3] + w[4]))
        /\ s[9 + w[1] + w[2] + w[3] + w[4]] = ":"
        /\ ReSecond(SubSeq(s, 10 + w[1] + w[2] + w[3] + w[4],
                           9 + w[1] + w[2] + w[3] + w[4] + w[5]))
        /\ s[10 + w[1] + w[2] + w[3] + w[4] + w[5]] \in {"Z", "z"} }

IsLeap(y) == y % 4 = 0 /\ (y % 100 # 0 \/ y % 400 = 0)
DaysInMonth(y, m) ==
    IF m = 2 THEN (IF IsLeap(y) THEN 29 ELSE 28)
    ELSE IF m \in {4, 6, 9, 11} THEN 30 ELSE 31

NoDate == [ok |-> FALSE, year |-> 0, month |-> 0, day |-> 0,
           hour |-> 0, minute |-> 0, second |-> 0]

\* The datetime of the integer values of the groups; none when they are out
\* of range (year 0, a day the month does not have, second 60 or 61).
MakeDate(y, m, d, H, M, S) ==
    IF y < 1 \/ d > DaysInMonth(y, m) \/ S > 59 THEN NoDate
    ELSE [ok |-> TRUE, year |-> y, month |-> m, day |-> d,
          hour |-> H, minute |-> M, second |-> S]

DateOfMatch(s, w) ==
    MakeDate(IntOf(SubSeq(s, 1, 4)),
             IntOf(SubSeq(s, 6, 5 + w[1])),
             IntOf(SubSeq(s, 7 + w[1], 6 + w[1] + w[2])),
             IntOf(SubSeq(s, 8 + w[1] + w[2], 7 + w[1] + w[2] + w[3])),
             IntOf(SubSeq(s, 9 + w[1] + w[2] + w[3], 8 + w[1] + w[2] + w[3] + w[4])),
             IntOf(SubSeq(s, 10 + w[1] + w[2] + w[3] + w[4],
                          9 + w[1] + w[2] + w[3] + w[4] + w[5])))

Strptime(s) ==
    IF \E w \in FieldCuts(s) : TRUE
    THEN CHOOSE d \in {DateOfMatch(s, w) : w \in FieldCuts(s)} : TRUE
    ELSE NoDate

(***************************************************************************)
(* datetime.strftime.  %m and %d are two digits.  %Y is the decimal year:  *)
(* the C library pads it to four digits on some platforms and not on       *)
(* others, so the padding of a year below 1000 is a parameter.             *)
(***************************************************************************)
RECURSIVE Decimal(_)
Decimal(n) ==
    IF n < 10 THEN <<DigitChars[n + 1]>>
    ELSE Decimal(n \div 10) \o <<DigitChars[(n % 10) + 1]>>

RECURSIVE ZeroPad(_, _)
ZeroPad(s, width) == IF Len(s) >= width THEN s ELSE ZeroPad(<<"0">> \o s, width)

YearPads == {TRUE, FALSE}

\* A variant of StrftimeDate with the format '%Y-%d-%m'.
StrftimeDateDayFirst(d, pad) ==
    (IF pad THEN ZeroPad(Decimal(d.year), 4) ELSE Decimal(d.year))
        \o <<"-">> \o ZeroPad(Decimal(d.day), 2)
        \o <<"-">> \o ZeroPad(Decimal(d.month), 2)

StrftimeDate(d, pad) ==
    (IF pad THEN ZeroPad(Decimal(d.year), 4) ELSE Decimal(d.year))
        \o <<"-">> \o ZeroPad(Decimal(d.month), 2)
        \o <<"-">> \o ZeroPad(Decimal(d.day), 2)

MonthNames == <<
    <<"J","a","n","u","a","r","y">>,
    <<"F","e","b","r","u","a","r","y">>,
    <<"M","a","r","c","h">>,
    <<"A","p","r","i","l">>,
    <<"M","a","y">>,
    <<"J","u","n","e">>,
    <<"J","u","l","y">>,
    <<"A","u","g","u","s","t">>,
    <<"S","e","p","t","e","m","b","e","r">>,
    <<"O","c","t","o","b","e","r">>,
    <<"N","o","v","e","m","b","e","r">>,
    <<"D","e","c","e","m","b","e","r">>
>>

StrftimeMonth(d) == MonthNames[d.month]

(***************************************************************************)
(* JSON values, dict access, json.dumps and json.loads.  The serialized    *)
(* text is a sequence of tokens <<type, payload>>.                         *)
(***************************************************************************)
JStr(s) == <<"str", s>>
JNum(n) == <<"num", n>>
JLit(l) == <<"lit", l>>
JArr(items) == <<"arr", items>>
JObj(members) == <<"obj", members>>

Keys(v) == IF v[1] = "obj" THEN {v[2][i][1] : i \in 1..Len(v[2])} ELSE {}
Has(v, k) == k \in Keys(v)
Get(v, k) == v[2][CHOOSE i \in 1..Len(v[2]) : v[2][i][1] = k][2]

\* d[k] = val on a dict: replaces the value of an existing key in place,
\* appends a new key.
DictSet(members, k, val) ==
    IF \E i \in 1..Len(members) : members[i][1] = k
    THEN [i \in 1..Len(members) |->
            IF members[i][1] = k THEN <<k, val>> ELSE members[i]]
    ELSE Append(members, <<k, val>>)

\* The longest prefix of a key path that can be followed, and the value at
\* the end of a path.
RECURSIVE HasPath(_, _)
HasPath(v, path) ==
    \/ Len(path) = 0
    \/ Has(v, path[1]) /\ HasPath(Get(v, path[1]), Tail(path))

RECURSIVE GetPath(_, _)
GetPath(v, path) ==
    IF Len(path) = 0 THEN v ELSE GetPath(Get(v, path[1]), Tail(path))

\* The key a chain of subscripts raises KeyError for.
RECURSIVE MissingKey(_, _)
MissingKey(v, path) ==
    IF Has(v, path[1]) THEN MissingKey(Get(v, path[1]), Tail(path))
    ELSE path[1]

LBrace == <<"{", <<>>>>
RBrace == <<"}", <<>>>>
LBracket == <<"[", <<>>>>
RBracket == <<"]", <<>>>>
Colon == <<":", <<>>>>
Comma == <<",", <<>>>>

RECURSIVE Dumps(_)
RECURSIVE DumpMembers(_)
RECURSIVE DumpItems(_)
Dumps(v) ==
    IF v[1] = "obj" THEN <<LBrace>> \o DumpMembers(v[2]) \o <<RBrace>>
    ELSE IF v[1] = "arr" THEN <<LBracket>> \o DumpItems(v[2]) \o <<RBracket>>
    ELSE IF v[1] = "str" THEN << <<"string", v[2]>> >>
    ELSE IF v[1] = "num" THEN << <<"number", v[2]>> >>
    ELSE << <<"literal", v[2]>> >>
DumpMembers(ms) ==
    IF Len(ms) = 0 THEN <<>>
    ELSE << <<"string", ms[1][1]>>, Colon >> \o Dumps(ms[1][2])
            \o (IF Len(ms) > 1 THEN <<Comma>> \o DumpMembers(Tail(ms)) ELSE <<>>)
DumpItems(items) ==
    IF Len(items) = 0 THEN <<>>
    ELSE Dumps(items[1])
            \o (IF Len(items) > 1 THEN <<Comma>> \o DumpItems(Tail(items)) ELSE <<>>)

RECURSIVE ParseValue(_)
RECURSIVE ParseMembers(_, _)
RECURSIVE ParseItems(_, _)
ParseValue(toks) ==
    IF toks[1][1] = "{"
    THEN IF toks[2][1] = "}"
         THEN [val |-> JObj(<<>>), rest |-> Tail(Tail(toks))]
         ELSE ParseMembers(Tail(toks), <<>>)
    ELSE IF toks[1][1] = "["
    THEN IF toks[2][1] = "]"
         THEN [val |-> JArr(<<>>), rest |-> Tail(Tail(toks))]
         ELSE ParseItems(Tail(toks), <<>>)
    ELSE IF toks[1][1] = "string" THEN [val |-> JStr(toks[1][2]), rest |-> Tail(toks)]
    ELSE IF toks[1][1] = "number" THEN [val |-> JNum(toks[1][2]), rest |-> Tail(toks)]
    ELSE [val |-> JLit(toks[1][2]), rest |-> Tail(toks)]
ParseMembers(toks, acc) ==
    LET r    == ParseValue(Tail(Tail(toks)))
        acc2 == DictSet(acc, toks[1][2], r.val)
    IN  IF r.rest[1][1] = ","
        THEN ParseMembers(Tail(r.rest), acc2)
        ELSE [val |-> JObj(acc2), rest |-> Tail(r.rest)]
ParseItems(toks, acc) ==
    LET r    == ParseValue(toks)
        acc2 == Append(acc, r.val)
    IN  IF r.rest[1][1] = ","
        THEN ParseItems(Tail(r.rest), acc2)
        ELSE [val |-> JArr(acc2), rest |-> Tail(r.rest)]

Loads(toks) == ParseValue(toks).val

(***************************************************************************)
(* The events the framework delivers.  An event is the manifest of a       *)
(* VulnerabilityReport: metadata (name, creationTimestamp, labels) and     *)
(* report (registry.server, artifact.repository/tag/digest, and whatever   *)
(* else the resource carries).                                             *)
(***************************************************************************)
NameChars == {"w", "-"}
Names == UNION {[1..n -> NameChars] : n \in 0..MaxNameLen}
Kinds == {ReplicaSetStr, DeploymentStr}

TimeTail == <<"T","0","6",":","3","6",":","1","6","Z">>
Y2023 == <<"2","0","2","3">>
Sep11 == Y2023 \o <<"-","0","9","-","1","1">>
BaseTimestamp == Sep11 \o TimeTail
\* Timestamps of the fixed form: the base, a leap day, a year below 1000.
FixedTimestamps ==
    {BaseTimestamp,
     <<"2","0","2","4","-","0","2","-","2","9">> \o TimeTail,
     <<"0","9","9","9","-","0","9","-","1","1">> \o TimeTail}
\* Timestamps outside the fixed form: one-digit fields, lower-case t and z,
\* fractional seconds, a date alone, a day and a second that do not exist.
OtherTimestamps ==
    {<<"2","0","2","3","-","9","-","1","1","T","6",":","3","6",":","1","6","Z">>,
     Sep11 \o <<"t","0","6",":","3","6",":","1","6","z">>,
     Sep11 \o <<"T","0","6",":","3","6",":","1","6",".","0","0","0","Z">>,
     Sep11,
     Y2023 \o <<"-","0","2","-","2","9">> \o TimeTail,
     Sep11 \o <<"T","0","6",":","3","6",":","6","0","Z">>}
\* Timestamps with decimal digits outside ASCII (fullwidth U+FF10..U+FF19):
\* in a place where the expression has \d, and in a place where it has a
\* bracket class.
UnicodeTimestamps ==
    {<<"U+FF12","U+FF10","U+FF12","U+FF13","-","0","9","-","1","1">> \o TimeTail,
     Y2023 \o <<"-","0","U+FF19","-","1","1">> \o TimeTail}
Timestamps == FixedTimestamps \cup OtherTimestamps \cup UnicodeTimestamps

BaseName == <<"w", "-">>

RequiredLabels == {LabelNamespace, LabelKind, LabelContainer, LabelName}
RequiredFields ==
    RequiredLabels \cup {"creationTimestamp", "server", "repository", "tag", "digest"}
\* An event is complete or lacks one of the required fields.
MissingSets == {{}} \cup {{f} : f \in RequiredFields}

Omit(members, missing) == SelectSeq(members, LAMBDA m : m[1] \notin missing)

Event(ts, kindv, namev, missing, typo) ==
    JObj(<<
        <<"kind", JStr(<<"V","R">>)>>,
        <<"metadata", JObj(Omit(<<
            <<"name", JStr(<<"r","e","p">>)>>,
            <<"creationTimestamp", JStr(ts)>>,
            <<"labels", JObj(Omit(<<
                <<LabelNamespace, JStr(<<"n","s">>)>>,
                <<LabelKind, JStr(kindv)>>,
                <<LabelName, JStr(namev)>>,
                <<LabelContainer, JStr(<<"c">>)>> >>, missing))>> >>, missing))>>,
        <<"report", JObj(Omit(<<
            <<"registry", JObj(Omit(<< <<"server", JStr(<<"i","o">>)>> >>, missing))>>,
            <<"artifact", JObj(Omit(<<
                <<"repository", JStr(<<"a","/","b">>)>>,
                <<"tag", JStr(<<"1",".","0">>)>>,
                <<"digest", JStr(<<"s","h","a",":","1">>)>> >>, missing))>>,
            <<"arficat", JObj(<< <<"tag", JStr(<<"9">>)>> >>)>>,
            <<"summary", JObj(<< <<"criticalCount", JNum(3)>>,
                                 <<"fixed", JLit("true")>> >>)>>,
            <<"vulnerabilities",
              JArr(<<JObj(<< <<"vulnerabilityID", JStr(<<"C","V","E">>)>> >>)>>)>>
            >>, IF typo THEN {} ELSE {"arficat"}))>> >>)

(***************************************************************************)
(* The process configuration (module settings), read-only after startup.   *)
(***************************************************************************)
SettingsValues ==
    [DEFECT_DOJO_URL : {<<"h","t","t","p",":","/","/","d","d">>},
     DEFECT_DOJO_API_KEY : {<<"k">>},
     DEFECT_DOJO_ACTIVE : {"active"},
     DEFECT_DOJO_VERIFIED : {"verified"},
     DEFECT_DOJO_CLOSE_OLD_FINDINGS : {TRUE},
     DEFECT_DOJO_CLOSE_OLD_FINDINGS_PRODUCT_SCOPE : {FALSE},
     DEFECT_DOJO_MINIMUM_SEVERITY : {"Info"},
     DEFECT_DOJO_AUTO_CREATE_CONTEXT : {"auto_create_context"},
     DEFECT_DOJO_DEDUPLICATION_ON_ENGAGEMENT : {"deduplication_on_engagement"},
     DEFECT_DOJO_DO_NOT_REACTIVATE : {"do_not_reactivate"},
     DEFECT_DOJO_ENVIRONMENT : {"Development"},
     DEFECT_DOJO_PRODUCT_NAME : {"product"},
     DEFECT_DOJO_PRODUCT_TYPE_NAME : {"product_type"},
     DEFECT_DOJO_GROUP_BY : {"component_name"}]

(***************************************************************************)
(* The worker threads that run invocations of the handler, in the order    *)
(* the framework tries them, and the events the framework delivers: to any *)
(* idle worker, whatever the other invocation is doing.                    *)
(***************************************************************************)
Workers == <<"A", "B">>
Invocations == {Workers[k] : k \in 1..Len(Workers)}
\* The delivered events: each timestamp, each kind with each name, and each
\* missing field, the others at their base values.  The events of the first
\* two families are what the operator's resources look like; those of the
\* third carry the stray report key as well.
Events ==
    {Event(ts, DeploymentStr, BaseName, {}, FALSE) : ts \in Timestamps}
        \cup {Event(BaseTimestamp, k, n, {}, FALSE) : k \in Kinds, n \in Names \cup {BaseName}}
        \cup {Event(BaseTimestamp, DeploymentStr, BaseName, m, TRUE) : m \in MissingSets}

(***************************************************************************)
(* What requests.post and response.raise_for_status can do.                *)
(***************************************************************************)
StatusCodes == {200, 304, 404, 500}
Contents == {<<>>, <<"n","o">>}
\* The exceptions requests.post raises: the connection fails or times out
\* at any request it sends, or the server redirects once too often.
ConnectionErrors == {"ConnectionError", "Timeout"}
TransportErrors == ConnectionErrors \cup {"TooManyRedirects"}
PostResults ==
    [type : {"response"}, status : StatusCodes, content : Contents, exc : {"none"}]
        \cup [type : {"exception"}, status : {0}, content : {<<>>}, exc : ConnectionErrors]
TooManyRedirects ==
    [type |-> "exception", status |-> 0, content |-> <<>>, exc |-> "TooManyRedirects"]

\* requests.post is called without allow_redirects and max_redirects, so it
\* follows an answer with one of these statuses and a Location header, up to
\* the default limit of the session.
RedirectStatuses == {301, 302, 303, 307, 308}
RedirectLimit == 30
\* Bound: the redirects the server answers one call of requests.post with.
\* It is below RedirectLimit, so within it requests.post follows every
\* redirect and does not raise TooManyRedirects.
MaxRedirects == 1

(***************************************************************************)
(* The steps of send_to_dojo as functions of the handler's inputs.         *)
(***************************************************************************)
Running == [state |-> "running", exc |-> "none", text |-> "", key |-> "",
            status |-> 0, content |-> <<>>, cause |-> "none"]
Returned == [Running EXCEPT !.state = "returned"]
Raised(exc, text, key) ==
    [Running EXCEPT !.state = "raised", !.exc = exc, !.text = text, !.key = key]

\* for i in body: full_object[i] = body[i]
RECURSIVE CopyKeys(_, _, _)
CopyKeys(b, ks, acc) ==
    IF Len(ks) = 0 THEN acc
    ELSE CopyKeys(b, Tail(ks), DictSet(acc, ks[1], Get(b, ks[1])))

\* A variant of FullObject whose loop skips the first key of the body.
FullObjectSkipFirst(b) ==
    JObj(CopyKeys(b, Tail([i \in 1..Len(b[2]) |-> b[2][i][1]]), <<>>))

FullObject(b) == JObj(CopyKeys(b, [i \in 1..Len(b[2]) |-> b[2][i][1]], <<>>))

\* report_file = {"file": ("report.json", BytesIO(json.dumps(full_object)))}
ReportFile(b) == [filename |-> "report.json", content |-> Dumps(FullObject(b))]

\* The two strptime/strftime lines, given the parsed datetime.
DateStep(d, pad) ==
    IF ~d.ok
    THEN [outcome |-> Raised("ValueError", "", ""),
          scan_date |-> <<>>, scan_month |-> <<>>]
    ELSE [outcome |-> Running,
          scan_date |-> StrftimeDate(d, pad),
          scan_month |-> StrftimeMonth(d)]

TimestampStep(m, pad) ==
    IF ~Has(m, "creationTimestamp")
    THEN [outcome |-> Raised("KeyError", "", "creationTimestamp"),
          scan_date |-> <<>>, scan_month |-> <<>>]
    ELSE CHOOSE r \in {DateStep(d, pad) :
                          d \in {Strptime(ts) : ts \in {Get(m, "creationTimestamp")[2]}}} :
             TRUE

\* name = ... : the ReplicaSet branch reads input.operatorObject, and input
\* is the Python builtin, which has no such attribute.
NameStep(meta, kindv) ==
    IF kindv = ReplicaSetStr
    THEN [outcome |-> Raised("AttributeError", "", "operatorObject"), name |-> <<>>]
    ELSE IF ~HasPath(meta, <<"labels", LabelName>>)
    THEN [outcome |-> Raised("KeyError", "", MissingKey(meta, <<"labels", LabelName>>)),
          name |-> <<>>]
    ELSE [outcome |-> Running, name |-> GetPath(meta, <<"labels", LabelName>>)[2]]

\* The first of a sequence of subscript chains that raises KeyError.
RECURSIVE FirstMissing(_, _)
FirstMissing(v, paths) ==
    IF Len(paths) = 0 THEN ""
    ELSE IF ~HasPath(v, paths[1]) THEN MissingKey(v, paths[1])
    ELSE FirstMissing(v, Tail(paths))

NoLabels == [outcome |-> Running, namespace |-> <<>>, kind |-> <<>>,
             container |-> <<>>, name |-> <<>>]

LabelsStep(meta) ==
    LET paths == << <<"labels", LabelNamespace>>, <<"labels", LabelKind>>,
                    <<"labels", LabelContainer>> >>
        miss  == FirstMissing(meta, paths)
    IN  IF miss # ""
        THEN [NoLabels EXCEPT !.outcome = Raised("KeyError", "", miss)]
        ELSE LET k == GetPath(meta, paths[2])[2]
                 n == NameStep(meta, k)
             IN  IF n.outcome.state = "raised"
                 THEN [NoLabels EXCEPT !.outcome = n.outcome]
                 ELSE [outcome |-> Running,
                       namespace |-> GetPath(meta, paths[1])[2],
                       kind |-> k,
                       container |-> GetPath(meta, paths[3])[2],
                       name |-> n.name]

\* The subscript chains of the image_* lines, in evaluation order.
ReportPaths ==
    << <<"report", "registry", "server">>,
       <<"report", "artifact", "repository">>,
       <<"report", "arficat", "tag">>,
       <<"report", "artifact", "digest">> >>

NoImage == [outcome |-> Running, image_name |-> <<>>, image_version |-> <<>>,
            image_full_name |-> <<>>, image_digest |-> <<>>]

ReportStep(b) ==
    LET miss == FirstMissing(b, ReportPaths)
    IN  IF miss # ""
        THEN [NoImage EXCEPT !.outcome = Raised("KeyError", "", miss)]
        ELSE LET img == GetPath(b, ReportPaths[1])[2] \o <<"/">>
                            \o GetPath(b, ReportPaths[2])[2]
                 ver == GetPath(b, ReportPaths[3])[2]
             IN  [outcome |-> Running,
                  image_name |-> img,
                  image_version |-> ver,
                  image_full_name |-> img \o <<":">> \o ver,
                  image_digest |-> GetPath(b, ReportPaths[4])[2]]

Service(ns, k, n, c, b) ==
    ns \o Sep2 \o k \o Sep2 \o n \o Sep2 \o c \o Sep2
        \o GetPath(b, <<"report", "artifact", "repository">>)[2]

Headers(cfg) ==
    [Authorization |-> <<"T","o","k","e","n"," ">> \o cfg.DEFECT_DOJO_API_KEY,
     Accept |-> "application/json"]

Data(cfg, meta, date, month, svc, version, digest) ==
    [active |-> cfg.DEFECT_DOJO_ACTIVE,
     verified |-> cfg.DEFECT_DOJO_VERIFIED,
     scan_date |-> date,
     close_old_findings |-> cfg.DEFECT_DOJO_CLOSE_OLD_FINDINGS_PRODUCT_SCOPE,
     close_old_findings_product_scope |-> cfg.DEFECT_DOJO_CLOSE_OLD_FINDINGS_PRODUCT_SCOPE,
     minimum_severity |-> cfg.DEFECT_DOJO_MINIMUM_SEVERITY,
     auto_create_context |-> cfg.DEFECT_DOJO_AUTO_CREATE_CONTEXT,
     deduplication_on_engagement |-> cfg.DEFECT_DOJO_DEDUPLICATION_ON_ENGAGEMENT,
     do_not_reactivate |-> cfg.DEFECT_DOJO_DO_NOT_REACTIVATE,
     scan_type |-> ScanTypeStr,
     engagement_name |-> EngagementPrefix \o month,
     environment |-> cfg.DEFECT_DOJO_ENVIRONMENT,
     product_name |-> cfg.DEFECT_DOJO_PRODUCT_NAME,
     product_type_name |-> cfg.DEFECT_DOJO_PRODUCT_TYPE_NAME,
     group_by |-> cfg.DEFECT_DOJO_GROUP_BY,
     test_title |-> Get(meta, "name")[2],
     service |-> svc,
     version |-> version,
     tags |-> TagsPrefix \o digest]

\* requests.post(url, headers=, data=, files=, verify=False)
Request(cfg, hdrs, form, file) ==
    [method |-> "POST", url |-> cfg.DEFECT_DOJO_URL \o ImportPath,
     headers |-> hdrs, data |-> form, files |-> file, verify |-> FALSE]

\* The request that follows a redirect: 302 and 303 turn it into a GET, and
\* so does 301 for a POST; 307 and 308 keep the method.  Unless the status is
\* 307 or 308 the body (form fields and file) is dropped.
RebuildMethod(method, status) ==
    IF status \in {302, 303} THEN "GET"
    ELSE IF status = 301 /\ method = "POST" THEN "GET"
    ELSE method

NoBody == <<>>

Redirected(req, status, location) ==
    [req EXCEPT !.method = RebuildMethod(@, status),
                !.url = location,
                !.data = IF status \in {307, 308} THEN @ ELSE NoBody,
                !.files = IF status \in {307, 308} THEN @ ELSE NoBody]

\* The Location a redirecting server names: the import URL again.
Locations(cfg) == {cfg.DEFECT_DOJO_URL \o ImportPath}

\* A variant of RaiseForStatus that raises for server errors only.
RaiseForServerError(status) == 500 <= status /\ status < 600

\* response.raise_for_status() raises HTTPError for 4xx and 5xx.
RaiseForStatus(status) == 400 <= status /\ status < 600

\* The try/except/else around the POST.
PostOutcome(result) ==
    IF result.type = "exception"
    THEN [Raised("PermanentError", "Other error occurred", "")
            EXCEPT !.cause = result.exc]
    ELSE IF RaiseForStatus(result.status)
    THEN [Raised("PermanentError", "HTTP error occurred", "")
            EXCEPT !.cause = "HTTPError", !.status = result.status,
                   !.content = result.content]
    ELSE Returned

\* Where the handler goes after the try statement: it ends, whatever the
\* result; there is no loop around the POST.
AfterPost(result) == "done"

(***************************************************************************)
(* State.  send_to_dojo is a synchronous handler: the framework runs each  *)
(* invocation in a worker thread, so invocations for different resources   *)
(* overlap.  Every variable but settings is a function of the invocation:  *)
(* its position, the event it works on, its local variables, the POSTs it  *)
(* has put on the wire, the response it got, its outcome and the lines it  *)
(* logged.  requests.post blocks, without a timeout, between sending a     *)
(* request and getting its answer; the invocation is then at l120.         *)
(* requests[i] holds every request the call has sent, the first POST and   *)
(* the requests that followed redirects.                                   *)
(***************************************************************************)
VARIABLES settings, pc, body, report_file, scan_date, scan_month,
          namespace, kind, container, name,
          image_name, image_version, image_full_name, image_digest,
          service, data, requests, response, outcome, log

labelVars == <<namespace, kind, container, name>>
imageVars == <<image_name, image_version, image_full_name, image_digest>>
dateVars == <<scan_date, scan_month>>
vars == <<settings, pc, body, report_file, scan_date, scan_month,
          namespace, kind, container, name,
          image_name, image_version, image_full_name, image_digest,
          service, data, requests, response, outcome, log>>

Unset == <<>>

meta(i) == Get(body[i], "metadata")

AllIdle == \A i \in Invocations : pc[i] = "idle"

\* The worker an event is handed to: the first one that is idle.
FirstIdle(i) ==
    /\ pc[i] = "idle"
    /\ \A k \in 1..Len(Workers) :
          (Workers[k] = i) => \A j \in 1..(k - 1) : pc[Workers[j]] # "idle"

Fresh ==
    /\ report_file = [i \in Invocations |-> Unset]
    /\ scan_date = [i \in Invocations |-> Unset]
    /\ scan_month = [i \in Invocations |-> Unset]
    /\ namespace = [i \in Invocations |-> Unset]
    /\ kind = [i \in Invocations |-> Unset]
    /\ container = [i \in Invocations |-> Unset]
    /\ name = [i \in Invocations |-> Unset]
    /\ image_name = [i \in Invocations |-> Unset]
    /\ image_version = [i \in Invocations |-> Unset]
    /\ image_full_name = [i \in Invocations |-> Unset]
    /\ image_digest = [i \in Invocations |-> Unset]
    /\ service = [i \in Invocations |-> Unset]
    /\ data = [i \in Invocations |-> Unset]
    /\ requests = [i \in Invocations |-> <<>>]
    /\ response = [i \in Invocations |-> Unset]
    /\ outcome = [i \in Invocations |-> Running]
    /\ log = [i \in Invocations |-> <<>>]

Init ==
    /\ settings \in SettingsValues
    /\ pc = [i \in Invocations |-> "idle"]
    /\ body = [i \in Invocations |-> Unset]
    /\ Fresh

\* The framework calls the handler, in worker i, with a created
\* VulnerabilityReport.
Deliver(i, ev) ==
    /\ FirstIdle(i)
    /\ body' = [body EXCEPT ![i] = ev]
    /\ pc' = [pc EXCEPT ![i] = "l51"]
    /\ UNCHANGED <<settings, report_file, dateVars, labelVars, imageVars,
                   service, data, requests, response, outcome, log>>

\* logger.info(f"Working on {meta['name']}")
LogWorking(i) ==
    /\ pc[i] = "l51"
    /\ log' = [log EXCEPT ![i] =
                  Append(@, [level |-> "info", text |-> "Working on",
                             arg |-> Get(meta(i), "name")[2]])]
    /\ pc' = [pc EXCEPT ![i] = "l57"]
    /\ UNCHANGED <<settings, body, report_file, dateVars, labelVars, imageVars,
                   service, data, requests, response, outcome>>

BuildReportFile(i) ==
    /\ pc[i] = "l57"
    /\ report_file' = [report_file EXCEPT ![i] = ReportFile(body[i])]
    /\ pc' = [pc EXCEPT ![i] = "l69"]
    /\ UNCHANGED <<settings, body, dateVars, labelVars, imageVars,
                   service, data, requests, response, outcome, log>>

ParseTimestamp(i) ==
    /\ pc[i] = "l69"
    /\ \E pad \in YearPads :
        \E r \in {TimestampStep(meta(i), pad)} :
            /\ scan_date' = [scan_date EXCEPT ![i] = r.scan_date]
            /\ scan_month' = [scan_month EXCEPT ![i] = r.scan_month]
            /\ outcome' = [outcome EXCEPT ![i] = r.outcome]
            /\ pc' = [pc EXCEPT ![i] =
                         IF r.outcome.state = "raised" THEN "done" ELSE "l72"]
    /\ UNCHANGED <<settings, body, report_file, labelVars, imageVars,
                   service, data, requests, response, log>>

ReadLabels(i) ==
    /\ pc[i] = "l72"
    /\ \E r \in {LabelsStep(meta(i))} :
           /\ namespace' = [namespace EXCEPT ![i] = r.namespace]
           /\ kind' = [kind EXCEPT ![i] = r.kind]
           /\ container' = [container EXCEPT ![i] = r.container]
           /\ name' = [name EXCEPT ![i] = r.name]
           /\ outcome' = [outcome EXCEPT ![i] = r.outcome]
           /\ pc' = [pc EXCEPT ![i] =
                        IF r.outcome.state = "raised" THEN "done" ELSE "l81"]
    /\ UNCHANGED <<settings, body, report_file, dateVars, imageVars,
                   service, data, requests, response, log>>

ReadReport(i) ==
    /\ pc[i] = "l81"
    /\ \E r \in {ReportStep(body[i])} :
           /\ image_name' = [image_name EXCEPT ![i] = r.image_name]
           /\ image_version' = [image_version EXCEPT ![i] = r.image_version]
           /\ image_full_name' = [image_full_name EXCEPT ![i] = r.image_full_name]
           /\ image_digest' = [image_digest EXCEPT ![i] = r.image_digest]
           /\ outcome' = [outcome EXCEPT ![i] = r.outcome]
           /\ pc' = [pc EXCEPT ![i] =
                        IF r.outcome.state = "raised" THEN "done" ELSE "l90"]
    /\ UNCHANGED <<settings, body, report_file, dateVars, labelVars,
                   service, data, requests, response, log>>

BuildPayload(i) ==
    /\ pc[i] = "l90"
    /\ \E svc \in {Service(namespace[i], kind[i], name[i], container[i], body[i])} :
           /\ service' = [service EXCEPT ![i] = svc]
           /\ data' = [data EXCEPT ![i] =
                          Data(settings, meta(i), scan_date[i], scan_month[i], svc,
                               image_version[i], image_digest[i])]
    /\ pc' = [pc EXCEPT ![i] = "l119"]
    /\ UNCHANGED <<settings, body, report_file, dateVars, labelVars, imageVars,
                   requests, response, outcome, log>>

\* requests.post(...) sends the request and blocks for the answer; no timeout
\* is passed, so the wait has no bound.
PostSend(i) ==
    /\ pc[i] = "l119"
    /\ requests' = [requests EXCEPT ![i] =
                       Append(@, Request(settings, Headers(settings),
                                         data[i], report_file[i]))]
    /\ pc' = [pc EXCEPT ![i] = "l120"]
    /\ UNCHANGED <<settings, body, report_file, dateVars, labelVars, imageVars,
                   service, data, response, outcome, log>>

\* The answer is a redirect (the server sends at most MaxRedirects of them):
\* requests.post sends the next request and blocks again, unless it has
\* followed RedirectLimit redirects already; then it raises
\* TooManyRedirects, which the except clause turns into a PermanentError.
FollowRedirect(i, status, location) ==
    /\ pc[i] = "l120"
    /\ Len(requests[i]) - 1 < MaxRedirects
    /\ IF Len(requests[i]) - 1 >= RedirectLimit
       THEN /\ outcome' = [outcome EXCEPT ![i] = PostOutcome(TooManyRedirects)]
            /\ pc' = [pc EXCEPT ![i] = AfterPost(TooManyRedirects)]
            /\ UNCHANGED requests
       ELSE /\ requests' = [requests EXCEPT ![i] =
                               Append(@, Redirected(@[Len(@)], status, location))]
            /\ UNCHANGED <<pc, outcome>>
    /\ UNCHANGED <<settings, body, report_file, dateVars, labelVars, imageVars,
                   service, data, response, log>>

\* requests.post returns a response or raises; then raise_for_status, the
\* except clauses or the else clause with its two log lines.
PostAnswer(i, result) ==
    /\ pc[i] = "l120"
    /\ response' = [response EXCEPT ![i] =
                       IF result.type = "response" THEN result ELSE @]
    /\ outcome' = [outcome EXCEPT ![i] = PostOutcome(result)]
    /\ log' = [log EXCEPT ![i] =
                  IF PostOutcome(result).state = "returned"
                  THEN @ \o << [level |-> "info", text |-> "Finished",
                                arg |-> Get(meta(i), "name")[2]],
                               [level |-> "debug", text |-> "",
                                arg |-> result.content] >>
                  ELSE @]
    /\ pc' = [pc EXCEPT ![i] = AfterPost(result)]
    /\ UNCHANGED <<settings, body, report_file, dateVars, labelVars, imageVars,
                   service, data, requests>>

\* The handler has returned or raised; the worker is free for the next
\* event.
Return(i) ==
    /\ pc[i] = "done"
    /\ pc' = [pc EXCEPT ![i] = "idle"]
    /\ body' = [body EXCEPT ![i] = Unset]
    /\ report_file' = [report_file EXCEPT ![i] = Unset]
    /\ scan_date' = [scan_date EXCEPT ![i] = Unset]
    /\ scan_month' = [scan_month EXCEPT ![i] = Unset]
    /\ namespace' = [namespace EXCEPT ![i] = Unset]
    /\ kind' = [kind EXCEPT ![i] = Unset]
    /\ container' = [container EXCEPT ![i] = Unset]
    /\ name' = [name EXCEPT ![i] = Unset]
    /\ image_name' = [image_name EXCEPT ![i] = Unset]
    /\ image_version' = [image_version EXCEPT ![i] = Unset]
    /\ image_full_name' = [image_full_name EXCEPT ![i] = Unset]
    /\ image_digest' = [image_digest EXCEPT ![i] = Unset]
    /\ service' = [service EXCEPT ![i] = Unset]
    /\ data' = [data EXCEPT ![i] = Unset]
    /\ requests' = [requests EXCEPT ![i] = <<>>]
    /\ response' = [response EXCEPT ![i] = Unset]
    /\ outcome' = [outcome EXCEPT ![i] = Running]
    /\ log' = [log EXCEPT ![i] = <<>>]
    /\ UNCHANGED settings

Next ==
    \/ \E i \in Invocations : pc[i] = "idle" /\ \E ev \in Events : Deliver(i, ev)
    \/ \E i \in Invocations : LogWorking(i)
    \/ \E i \in Invocations : BuildReportFile(i)
    \/ \E i \in Invocations : ParseTimestamp(i)
    \/ \E i \in Invocations : ReadLabels(i)
    \/ \E i \in Invocations : ReadReport(i)
    \/ \E i \in Invocations : BuildPayload(i)
    \/ \E i \in Invocations : PostSend(i)
    \/ \E i \in Invocations :
          /\ pc[i] = "l120"
          /\ \E status \in RedirectStatuses, location \in Locations(settings) :
                 FollowRedirect(i, status, location)
    \/ \E i \in Invocations : pc[i] = "l120" /\ \E result \in PostResults : PostAnswer(i, result)
    \/ \E i \in Invocations : Return(i)

Spec == Init /\ [][Next]_vars

(***************************************************************************)
(* Vocabulary of the properties; i is an invocation.                       *)
(***************************************************************************)
\* The POSTs among the requests an invocation has sent.
PostIndexes(i) == {k \in 1..Len(requests[i]) : requests[i][k].method = "POST"}
Posts(i) == Cardinality(PostIndexes(i))
PastLine(i, l) ==
    pc[i] \in (CASE l = "l57" -> {"l69", "l72", "l81", "l90", "l119", "l120", "done"}
                 [] l = "l69" -> {"l72", "l81", "l90", "l119", "l120", "done"}
                 [] l = "l72" -> {"l81", "l90", "l119", "l120", "done"}
                 [] l = "l81" -> {"l90", "l119", "l120", "done"}
                 [] l = "l90" -> {"l119", "l120", "done"})
DataBuilt(i) == pc[i] = "l119" \/ Posts(i) > 0
Answered(i) == pc[i] = "done" /\ Posts(i) > 0

Label(i, l) == GetPath(meta(i), <<"labels", l>>)[2]
HasLabels(i) == \A l \in RequiredLabels : HasPath(meta(i), <<"labels", l>>)
RequiredReportPaths ==
    {<<"report", "registry", "server">>, <<"report", "artifact", "repository">>,
     <<"report", "artifact", "tag">>, <<"report", "artifact", "digest">>}
HasReportFields(i) == \A path \in RequiredReportPaths : HasPath(body[i], path)
HasTimestamp(i) == Has(meta(i), "creationTimestamp")
Timestamp(i) == Get(meta(i), "creationTimestamp")[2]

AllDigits(f, D) == \A i \in 1..Len(f) : f[i] \in D
ValidDateTime(y, m, d, H, M, S) ==
    /\ y >= 1 /\ m \in 1..12 /\ d \in 1..DaysInMonth(y, m)
    /\ H <= 23 /\ M <= 59 /\ S <= 59

\* YYYY-MM-DDThh:mm:ssZ in the digits 0 to 9, denoting a date and a time of
\* day.
FixedForm(s) ==
    /\ Len(s) = 20
    /\ \A i \in {1, 2, 3, 4, 6, 7, 9, 10, 12, 13, 15, 16, 18, 19} : s[i] \in AsciiDigit
    /\ s[5] = "-" /\ s[8] = "-" /\ s[11] = "T"
    /\ s[14] = ":" /\ s[17] = ":" /\ s[20] = "Z"
    /\ ValidDateTime(IntOf(SubSeq(s, 1, 4)), IntOf(SubSeq(s, 6, 7)),
                     IntOf(SubSeq(s, 9, 10)), IntOf(SubSeq(s, 12, 13)),
                     IntOf(SubSeq(s, 15, 16)), IntOf(SubSeq(s, 18, 19)))

\* The wider form over a set D of digits: a four-digit year, the other
\* fields of one or two digits (the day possibly a space and a digit), T and
\* Z in either case, denoting a date and a time of day.
ShortField(f, D) == Len(f) \in {1, 2} /\ AllDigits(f, D)
WiderFormOver(s, D) ==
    LET u  == [i \in 1..Len(s) |->
                 IF s[i] = "t" THEN "T" ELSE IF s[i] = "z" THEN "Z" ELSE s[i]]
        p1 == Split(u, "-")
        p2 == Split(p1[3], "T")
        p3 == Split(p2[2], ":")
        S  == ButLast(p3[3])
    IN  /\ Len(p1) = 3 /\ Len(p2) = 2 /\ Len(p3) = 3
        /\ Len(p3[3]) >= 1 /\ p3[3][Len(p3[3])] = "Z"
        /\ Len(p1[1]) = 4 /\ AllDigits(p1[1], D)
        /\ ShortField(p1[2], D)
        /\ \/ ShortField(p2[1], D)
           \/ Len(p2[1]) = 2 /\ p2[1][1] = " " /\ p2[1][2] \in D
        /\ ShortField(p3[1], D) /\ ShortField(p3[2], D) /\ ShortField(S, D)
        /\ ValidDateTime(IntOf(p1[1]), IntOf(p1[2]), IntOf(p2[1]),
                         IntOf(p3[1]), IntOf(p3[2]), IntOf(S))

\* The wider form in the digits 0 to 9, and in the decimal digits of any
\* script.
WiderForm(s) == WiderFormOver(s, AsciiDigit)
AnyScriptForm(s) == WiderFormOver(s, Digit)

WellFormed(i) ==
    HasLabels(i) /\ HasReportFields(i) /\ HasTimestamp(i) /\ FixedForm(Timestamp(i))

ExpectedResourceName(i) ==
    IF Label(i, LabelKind) = ReplicaSetStr
    THEN Join(ButLast(Split(Label(i, LabelName), "-")), <<"-">>)
    ELSE Label(i, LabelName)

(***************************************************************************)
(* Properties.  Each is stated of every invocation.                        *)
(***************************************************************************)

\* C1: every well-formed event (four labels, fixed-form creationTimestamp,
\* registry.server and artifact.repository/tag/digest present), whatever its
\* kind, ends with exactly one POST to <endpoint>/api/v2/reimport-scan/, and
\* when that POST answers 2xx the handler returns normally.
C1_WellFormedDelivered ==
    \A i \in Invocations :
        (pc[i] = "done" /\ WellFormed(i)) =>
            /\ Posts(i) = 1
            /\ requests[i][1].method = "POST"
            /\ requests[i][1].url = settings.DEFECT_DOJO_URL \o ImportPath
            /\ (outcome[i].cause \notin TransportErrors
                    /\ response[i].status \in 200..299)
                    => outcome[i].state = "returned"

\* C2: once the handler is past the label lines, or has ended in them, of an
\* event that carries the four labels (and a creationTimestamp that parsed,
\* so that the label lines were reached), the derived name is the name label
\* without its last hyphen-delimited token for a ReplicaSet, and the name
\* label itself for any other kind.
C2_ResourceName ==
    \A i \in Invocations :
        (PastLine(i, "l72") /\ HasLabels(i) /\ HasTimestamp(i)
            /\ Strptime(Timestamp(i)).ok) =>
            /\ outcome[i].exc # "AttributeError"
            /\ name[i] = ExpectedResourceName(i)

\* C3: every well-formed event is submitted with service = namespace__kind__
\* resourceName__container__repository, the five segments joined by double
\* underscores and resourceName trimmed for a ReplicaSet, and with tags =
\* image_digest=<digest>.
C3_ServiceAndTags ==
    \A i \in Invocations :
        (pc[i] = "done" /\ WellFormed(i)) =>
            /\ Posts(i) >= 1
            /\ \A k \in PostIndexes(i) :
                   /\ requests[i][k].data.service =
                         Join(<<Label(i, LabelNamespace), Label(i, LabelKind),
                                ExpectedResourceName(i), Label(i, LabelContainer),
                                GetPath(body[i], <<"report", "artifact", "repository">>)[2]>>,
                              Sep2)
                   /\ requests[i][k].data.tags =
                         TagsPrefix \o GetPath(body[i], <<"report", "artifact", "digest">>)[2]

\* C4: a POST is issued only for an event that has the four labels, the four
\* report sub-fields and a creationTimestamp that parses.
C4_NoPostOnMalformed ==
    \A i \in Invocations :
        Posts(i) > 0 =>
            /\ HasLabels(i)
            /\ HasReportFields(i)
            /\ HasTimestamp(i) /\ Strptime(Timestamp(i)).ok

\* C5: every invocation that raises, raises kopf.PermanentError.
C5_FailuresPermanent ==
    \A i \in Invocations :
        outcome[i].state = "raised" => outcome[i].exc = "PermanentError"

\* C6 as stated: a response with any status outside 2xx ends the invocation
\* in a PermanentError that carries the status and the response body, and
\* the Finished line is not logged.
C6_Non2xxRejected ==
    \A i \in Invocations :
        (Answered(i) /\ outcome[i].cause \notin TransportErrors
            /\ response[i].status \notin 200..299) =>
            /\ outcome[i].state = "raised" /\ outcome[i].exc = "PermanentError"
            /\ outcome[i].status = response[i].status
            /\ outcome[i].content = response[i].content
            /\ \A k \in 1..Len(log[i]) : log[i][k].text # "Finished"

\* C6 amended: a response with a 4xx or 5xx status ends the invocation in a
\* PermanentError that carries the status and the response body, and the
\* Finished line is not logged; a response with any other status, 3xx
\* included, ends it as delivered.
C6_ErrorStatusRejected ==
    \A i \in Invocations :
        (Answered(i) /\ outcome[i].cause \notin TransportErrors) =>
            IF response[i].status \in 400..599
            THEN /\ outcome[i].state = "raised" /\ outcome[i].exc = "PermanentError"
                 /\ outcome[i].text = "HTTP error occurred"
                 /\ outcome[i].status = response[i].status
                 /\ outcome[i].content = response[i].content
                 /\ \A k \in 1..Len(log[i]) : log[i][k].text # "Finished"
            ELSE /\ outcome[i].state = "returned"
                 /\ \E k \in 1..Len(log[i]) : log[i][k].text = "Finished"

C6_Witness ==
    \E i \in Invocations :
        /\ Answered(i) /\ Posts(i) = 1
        /\ outcome[i].cause = "HTTPError"
        /\ response[i].status = 404
        /\ outcome[i].status = 404
        /\ outcome[i].content = <<"n", "o">>

\* C7: an invocation puts at most one POST on the wire, whatever the
\* outcome; when the POST raises a transport exception the invocation ends
\* in a PermanentError.
C7_OnePostNoRetry ==
    \A i \in Invocations :
        /\ Posts(i) <= 1
        /\ outcome[i].cause \in TransportErrors =>
              /\ pc[i] = "done"
              /\ outcome[i].state = "raised" /\ outcome[i].exc = "PermanentError"
              /\ outcome[i].text = "Other error occurred"

\* C8: the file part report.json, parsed back, has exactly the top-level
\* keys of the event body, each with the body's value; the file of every
\* POST is that file.
C8_RoundTrip ==
    \A i \in Invocations :
        PastLine(i, "l57") =>
            LET parsed == Loads(report_file[i].content)
            IN  /\ report_file[i].filename = "report.json"
                /\ Keys(parsed) = Keys(body[i])
                /\ \A k \in Keys(body[i]) : Get(parsed, k) = Get(body[i], k)
                /\ \A k \in PostIndexes(i) : requests[i][k].files = report_file[i]

C8_Witness ==
    \E i \in Invocations :
        /\ Posts(i) = 1
        /\ Keys(Loads(requests[i][1].files.content)) = {"kind", "metadata", "report"}
        /\ HasPath(Loads(requests[i][1].files.content),
                   <<"report", "summary", "criticalCount">>)

\* C9 as stated: a creationTimestamp in the fixed form gives scan_date its
\* date part and engagement_name the name of its month; any other
\* creationTimestamp fails the build.
C9_FixedFormOnly ==
    \A i \in Invocations :
        (PastLine(i, "l69") /\ HasTimestamp(i)) =>
            IF FixedForm(Timestamp(i))
            THEN /\ scan_date[i] = SubSeq(Timestamp(i), 1, 10)
                 /\ scan_month[i] = MonthNames[IntOf(SubSeq(Timestamp(i), 6, 7))]
                 /\ DataBuilt(i) =>
                       /\ data[i].scan_date = SubSeq(Timestamp(i), 1, 10)
                       /\ data[i].engagement_name = EngagementPrefix \o scan_month[i]
            ELSE pc[i] = "done" /\ outcome[i].state = "raised" /\ Posts(i) = 0

\* C9 amended: a creationTimestamp in the fixed form (digits 0 to 9) with a
\* year of 1000 or later gives scan_date its date part and engagement_name
\* the name of its month; a creationTimestamp of the wider form (one-digit
\* fields, a space-padded day, lower-case t or z) in the digits 0 to 9 is
\* accepted as well; a creationTimestamp that is not of the wider form even
\* when the decimal digits of other scripts count as digits ends the
\* invocation in a ValueError with no POST.
C9_Timestamp ==
    \A i \in Invocations :
        (PastLine(i, "l69") /\ HasTimestamp(i)) =>
            /\ (FixedForm(Timestamp(i)) /\ IntOf(SubSeq(Timestamp(i), 1, 4)) >= 1000) =>
                  /\ scan_date[i] = SubSeq(Timestamp(i), 1, 10)
                  /\ scan_month[i] = MonthNames[IntOf(SubSeq(Timestamp(i), 6, 7))]
                  /\ DataBuilt(i) =>
                        /\ data[i].scan_date = SubSeq(Timestamp(i), 1, 10)
                        /\ data[i].engagement_name = EngagementPrefix \o scan_month[i]
            /\ outcome[i].exc = "ValueError" => ~WiderForm(Timestamp(i))
            /\ \/ /\ pc[i] = "done"
                  /\ outcome[i].state = "raised" /\ outcome[i].exc = "ValueError"
                  /\ Posts(i) = 0
               \/ AnyScriptForm(Timestamp(i))

C9_Witness ==
    \E i \in Invocations :
        /\ Posts(i) = 1
        /\ Timestamp(i) = Sep11 \o TimeTail
        /\ requests[i][1].data.scan_date = Sep11
        /\ requests[i][1].data.engagement_name =
              EngagementPrefix \o <<"S","e","p","t","e","m","b","e","r">>

\* C10: every scan-policy field of a built payload is the value of its own
\* setting, close_old_findings that of the close-old-findings setting, and
\* version is report.artifact.tag.
C10_PassThrough ==
    \A i \in Invocations :
        DataBuilt(i) =>
            /\ data[i].active = settings.DEFECT_DOJO_ACTIVE
            /\ data[i].verified = settings.DEFECT_DOJO_VERIFIED
            /\ data[i].close_old_findings = settings.DEFECT_DOJO_CLOSE_OLD_FINDINGS
            /\ data[i].close_old_findings_product_scope =
                  settings.DEFECT_DOJO_CLOSE_OLD_FINDINGS_PRODUCT_SCOPE
            /\ data[i].minimum_severity = settings.DEFECT_DOJO_MINIMUM_SEVERITY
            /\ data[i].auto_create_context = settings.DEFECT_DOJO_AUTO_CREATE_CONTEXT
            /\ data[i].deduplication_on_engagement =
                  settings.DEFECT_DOJO_DEDUPLICATION_ON_ENGAGEMENT
            /\ data[i].do_not_reactivate = settings.DEFECT_DOJO_DO_NOT_REACTIVATE
            /\ data[i].environment = settings.DEFECT_DOJO_ENVIRONMENT
            /\ data[i].product_name = settings.DEFECT_DOJO_PRODUCT_NAME
            /\ data[i].product_type_name = settings.DEFECT_DOJO_PRODUCT_TYPE_NAME
            /\ data[i].group_by = settings.DEFECT_DOJO_GROUP_BY
            /\ HasPath(body[i], <<"report", "artifact", "tag">>)
            /\ data[i].version = GetPath(body[i], <<"report", "artifact", "tag">>)[2]

====
